---- MODULE Spec2Model ----
(***************************************************************************)
(* Model of the schedule optimizer of team-time-orchestrator               *)
(* (src/src/utils/scheduleOptimizer.ts) and of the grid data it works on.  *)
(*                                                                         *)
(* A ScheduleGrid is a JavaScript object of objects.  It is modelled as a  *)
(* function userId -> (dateKey -> cell); a property the object does not    *)
(* have is a key outside the DOMAIN.  Objects live in a heap and are named *)
(* by references, so that aliasing and in-place mutation are visible.      *)
(***************************************************************************)
EXTENDS Integers, Sequences, FiniteSets, TLC

\* ------------------------------------------------------------------ bounds
MaxUsers == 3
MaxDays == 2
MaxCapacity == 2
MaxSpecial == 1

\* --------------------------------------------------------------- constants
NullPeriod == [null |-> TRUE]
NullUsers == <<[null |-> TRUE]>>
Undefined == "undefined"
NoRef == 0

AllUsers == <<"A", "B", "C", "D", "E">>

\* The calendar the date strings of the model are taken from; the position
\* of a string in it is the day number date-fns computes with.
Calendar == <<"2023-12-31", "2024-01-01", "2024-01-02", "2024-01-03",
              "2024-01-04", "2024-01-05", "2024-01-06">>
StartDate == "2024-01-01"
MalformedDate == "2024-13-45"

\* ---------------------------------------------------------------- date-fns
\* A Date is the day number of a calendar day, or the Invalid Date; a number
\* is an integer or NaN.
Date(n) == [valid |-> TRUE, day |-> n]
InvalidDate == [valid |-> FALSE, day |-> 0]
Number(n) == [nan |-> FALSE, n |-> n]
NaN == [nan |-> TRUE, n |-> 0]

parseISO(s) ==
  IF \E k \in 1..Len(Calendar) : Calendar[k] = s
  THEN Date(CHOOSE k \in 1..Len(Calendar) : Calendar[k] = s)
  ELSE InvalidDate

differenceInDays(a, b) == IF a.valid /\ b.valid THEN Number(a.day - b.day) ELSE NaN

addDays(d, n) == IF d.valid THEN Date(d.day + n) ELSE InvalidDate

format(d) == Calendar[d.day]

\* JavaScript's  x + 1  and  i < x  on a number that may be NaN
PlusOne(x) == IF x.nan THEN NaN ELSE Number(x.n + 1)
LessThan(n, x) == IF x.nan THEN FALSE ELSE n < x.n

\* const days = differenceInDays(parseISO(end_date), parseISO(start_date)) + 1
DaysOf(wp) == PlusOne(differenceInDays(parseISO(wp.end_date), parseISO(wp.start_date)))

\* const dateKey = format(addDays(parseISO(start_date), i), 'yyyy-MM-dd')
DateKeyOf(wp, n) == format(addDays(parseISO(wp.start_date), n))

\* ------------------------------------------------------------------- cells
CellData(id, a, l, r) == [id |-> id, assigned |-> a, locked |-> l, requested_off |-> r]

DefaultCell == CellData(Undefined, FALSE, FALSE, FALSE)

ShiftId(u, d) == u \o "@" \o d

\* newGrid[userId] && newGrid[userId][dateKey]
HasCell(g, u, d) == u \in DOMAIN g /\ d \in DOMAIN g[u]

\* newGrid[a] || {}
RowOf(g, u) == IF u \in DOMAIN g THEN g[u] ELSE <<>>

\* JSON.stringify drops a property whose value is undefined, so the text
\* of a cell has an "id" member only when the cell has an id; JSON.parse
\* rebuilds the objects, and reading the absent property gives undefined.
CellToJSON(c) ==
  IF c.id = Undefined
  THEN [assigned |-> c.assigned, locked |-> c.locked, requested_off |-> c.requested_off]
  ELSE [id |-> c.id, assigned |-> c.assigned, locked |-> c.locked,
        requested_off |-> c.requested_off]

CellFromJSON(j) ==
  CellData(IF "id" \in DOMAIN j THEN j.id ELSE Undefined, j.assigned, j.locked,
           j.requested_off)

JSONstringify(g) == [u \in DOMAIN g |-> [d \in DOMAIN g[u] |-> CellToJSON(g[u][d])]]

JSONparse(t) == [u \in DOMAIN t |-> [d \in DOMAIN t[u] |-> CellFromJSON(t[u][d])]]

\* ------------------------------------------------------- optimizeSchedule
AssignedCount_anyDay(g, userIds, dateKey) ==
  Cardinality({k \in 1..Len(userIds) :
                 \E d \in DOMAIN RowOf(g, userIds[k]) : g[userIds[k]][d].assigned})

\* userIds.forEach(userId => { if (cell && cell.assigned) assignedCount++ })
AssignedCount(g, userIds, dateKey) ==
  Cardinality({k \in 1..Len(userIds) :
                 HasCell(g, userIds[k], dateKey) /\ g[userIds[k]][dateKey].assigned})

Assignments_unfiltered(g, a) == Cardinality(DOMAIN RowOf(g, a))

\* Object.values(newGrid[a] || {}).filter(cell => cell && cell.assigned).length
Assignments(g, a) ==
  Cardinality({d \in DOMAIN RowOf(g, a) : RowOf(g, a)[d].assigned})

CompareAscending_reversed(g, a, b) == Assignments(g, b) - Assignments(g, a)

\* the comparators handed to Array.prototype.sort
CompareAscending(g, a, b) == Assignments(g, a) - Assignments(g, b)

CompareDescending_reversed(g, a, b) == Assignments(g, a) - Assignments(g, b)

CompareDescending(g, a, b) == Assignments(g, b) - Assignments(g, a)


RankingGrid_frozen(input, live) == input

\* which grid the ranking of a day reads: the grid being rewritten
RankingGrid(input, live) == live

\* (a, b) => ...  of the two sorts, by direction
Compare(g, ascending, a, b) ==
  IF ascending THEN CompareAscending(g, a, b) ELSE CompareDescending(g, a, b)


SortInsert_beforeEqual(sorted, x, g, ascending) ==
  LET notLess == {k \in 1..Len(sorted) : Compare(g, ascending, sorted[k], x) >= 0}
  IN  IF notLess = {} THEN Append(sorted, x)
      ELSE LET m == CHOOSE k \in notLess : \A j \in notLess : k <= j
           IN  SubSeq(sorted, 1, m - 1) \o <<x>> \o SubSeq(sorted, m, Len(sorted))

\* Array.prototype.sort is stable: an element goes in front of the first
\* element that compares greater, so behind the equal ones that came before it
SortInsert(sorted, x, g, ascending) ==
  LET greater == {k \in 1..Len(sorted) : Compare(g, ascending, sorted[k], x) > 0}
  IN  IF greater = {} THEN Append(sorted, x)
      ELSE LET m == CHOOSE k \in greater : \A j \in greater : k <= j
           IN  SubSeq(sorted, 1, m - 1) \o <<x>> \o SubSeq(sorted, m, Len(sorted))

RECURSIVE SortFrom(_, _, _, _, _)
SortFrom(s, k, sorted, g, ascending) ==
  IF k > Len(s) THEN sorted
  ELSE SortFrom(s, k + 1, SortInsert(sorted, s[k], g, ascending), g, ascending)

\* [...userIds].sort(comparator)
sort(s, g, ascending) == SortFrom(s, 1, <<>>, g, ascending)

SortedUsersAscending_unsorted(input, live, userIds) == userIds

SortedUsersAscending(input, live, userIds) ==
  sort(userIds, RankingGrid(input, live), TRUE)

SortedUsersDescending(input, live, userIds) ==
  sort(userIds, RankingGrid(input, live), FALSE)


\* variants of the conditions and steps below, each with one plausible slip
SkipWhenAssigning_ignoreRequestedOff(cellData) == cellData.assigned \/ cellData.locked

SkipWhenAssigning_ignoreLock(cellData) == cellData.assigned \/ cellData.requested_off

SkipWhenRemoving_ignoreLock(cellData) == FALSE

SetAssigned_freshCell(g, u, d, value) ==
  [g EXCEPT ![u][d] = CellData(Undefined, value, FALSE, FALSE)]

\* if (cellData.assigned || cellData.locked || cellData.requested_off) continue
SkipWhenAssigning(cellData) ==
  cellData.assigned \/ cellData.locked \/ cellData.requested_off

\* if (cellData.locked) continue
SkipWhenRemoving(cellData) == cellData.locked

\* newGrid[userId][dateKey].assigned = value
SetAssigned(g, u, d, value) == [g EXCEPT ![u][d].assigned = value]

\* for (const userId of sortedUsers) { ... assign ... } of the under-capacity
\* branch, from position k on, with the running assignedCount
RECURSIVE AssignWalk(_, _, _, _, _, _)
AssignWalk(g, sortedUsers, k, assignedCount, capacity, dateKey) ==
  IF k > Len(sortedUsers) THEN g
  ELSE LET userId == sortedUsers[k] IN
    IF ~HasCell(g, userId, dateKey)
    THEN AssignWalk(g, sortedUsers, k + 1, assignedCount, capacity, dateKey)
    ELSE IF SkipWhenAssigning(g[userId][dateKey])
    THEN AssignWalk(g, sortedUsers, k + 1, assignedCount, capacity, dateKey)
    ELSE LET g2 == SetAssigned(g, userId, dateKey, TRUE) IN
      IF assignedCount + 1 >= capacity THEN g2
      ELSE AssignWalk(g2, sortedUsers, k + 1, assignedCount + 1, capacity, dateKey)

\* for (const userId of sortedUsers) { ... unassign ... } of the over-capacity
\* branch
RECURSIVE RemoveWalk(_, _, _, _, _, _)
RemoveWalk(g, sortedUsers, k, assignedCount, capacity, dateKey) ==
  IF k > Len(sortedUsers) THEN g
  ELSE LET userId == sortedUsers[k] IN
    IF ~HasCell(g, userId, dateKey)
    THEN RemoveWalk(g, sortedUsers, k + 1, assignedCount, capacity, dateKey)
    ELSE IF SkipWhenRemoving(g[userId][dateKey])
    THEN RemoveWalk(g, sortedUsers, k + 1, assignedCount, capacity, dateKey)
    ELSE IF g[userId][dateKey].assigned
    THEN LET g2 == SetAssigned(g, userId, dateKey, FALSE) IN
      IF assignedCount - 1 <= capacity THEN g2
      ELSE RemoveWalk(g2, sortedUsers, k + 1, assignedCount - 1, capacity, dateKey)
    ELSE RemoveWalk(g, sortedUsers, k + 1, assignedCount, capacity, dateKey)


UnderCapacity_orEqual(assignedCount, capacity) == assignedCount <= capacity

OverCapacity_offByOne(assignedCount, capacity) == assignedCount > capacity + 1

OverCapacity_orEqual(assignedCount, capacity) == assignedCount >= capacity

UnderCapacity_orZero(assignedCount, capacity) ==
  assignedCount < capacity \/ assignedCount = 0

\* the two branch conditions of one day
UnderCapacity(assignedCount, capacity) == assignedCount < capacity
OverCapacity(assignedCount, capacity) == assignedCount > capacity

DayPass_lateBreak(wp, userIds, input, g, n) ==
  LET dateKey == DateKeyOf(wp, n)
      assignedCount == AssignedCount(g, userIds, dateKey)
      capacity == wp.needed_capacity
  IN  IF UnderCapacity(assignedCount, capacity)
      THEN AssignWalk(g, SortedUsersAscending(input, g, userIds), 1, assignedCount,
                      capacity + 1, dateKey)
      ELSE IF OverCapacity(assignedCount, capacity)
      THEN RemoveWalk(g, SortedUsersDescending(input, g, userIds), 1, assignedCount,
                      capacity, dateKey)
      ELSE g

\* the body of the day loop for day number n: count, then one of the branches.
\* input is the grid the call was given, g the working copy
DayPass(wp, userIds, input, g, n) ==
  LET dateKey == DateKeyOf(wp, n)
      assignedCount == AssignedCount(g, userIds, dateKey)
      capacity == wp.needed_capacity
  IN  IF UnderCapacity(assignedCount, capacity)
      THEN AssignWalk(g, SortedUsersAscending(input, g, userIds), 1, assignedCount,
                      capacity, dateKey)
      ELSE IF OverCapacity(assignedCount, capacity)
      THEN RemoveWalk(g, SortedUsersDescending(input, g, userIds), 1, assignedCount,
                      capacity, dateKey)
      ELSE g

\* for (let i = 0; i < days; i++) { ... }, from i = n on
RECURSIVE DayLoop(_, _, _, _, _, _)
DayLoop(wp, userIds, input, g, n, days) ==
  IF LessThan(n, days)
  THEN DayLoop(wp, userIds, input, DayPass(wp, userIds, input, g, n), n + 1, days)
  ELSE g

\* ------------------------------------------------------------------ state
VARIABLES
  workPeriod,     \* argument: the WorkPeriod record, or NullPeriod
  assignedUsers,  \* argument: the UserProfile[] array, or NullUsers
  scheduleGrid,   \* argument: reference to the caller's grid, or NoRef
  heap,           \* the grid objects, by reference
  pc,             \* "call" before optimizeSchedule runs, "done" after
  result,         \* the reference the call returned
  outcome,        \* how the call ended: "returned" or the error it threw
  call,           \* 1 for the first call, 2 for the call on its result
  snapshot,       \* the value of the caller's grid when the call was made
  isAdmin,        \* the isAdmin prop of the schedule page
  shifts,         \* the rows of the shifts table (the ShiftRecord[] argument)
  rendered,       \* the scheduleGrid prop of the last render, read by the handlers
  pending,        \* the grid set by the reload effect and not rendered yet, if any
  inFlight,       \* the store writes issued and not settled yet
  batches,        \* the Promise.all batches of runOptimizer and toggleColumnLock
  toasts,         \* the toasts shown so far
  clicks,         \* the number of handler invocations so far
  failures        \* the number of store writes that failed so far

\* the state of the schedule page
pageVars == <<isAdmin, shifts, rendered, pending, inFlight, batches, toasts, clicks,
              failures>>

\* the state of a call of optimizeSchedule or initializeScheduleGrid
callVars == <<scheduleGrid, heap, pc, result, outcome, call, snapshot>>

vars == <<workPeriod, assignedUsers, scheduleGrid, heap, pc, result, outcome, call,
          snapshot, pageVars>>

\* ----------------------------------------------------------------- inputs
UserProfile(u) == [id |-> u]

UsersOf(n) == [k \in 1..n |-> UserProfile(AllUsers[k])]

WorkPeriod(start, end, capacity) ==
  [start_date |-> start, end_date |-> end, needed_capacity |-> capacity]

\* the periods of 1..MaxDays days with a capacity of 0..MaxCapacity
ValidPeriods ==
  {WorkPeriod(StartDate, format(addDays(parseISO(StartDate), n - 1)), capacity) :
     n \in 1..MaxDays, capacity \in 0..MaxCapacity}

\* the malformed periods: end before start, an end or a start that is not a
\* date, a negative capacity
InvalidPeriods ==
  {WorkPeriod(StartDate, format(addDays(parseISO(StartDate), -1)), 1),
   WorkPeriod(StartDate, MalformedDate, 1),
   WorkPeriod(MalformedDate, StartDate, 1),
   WorkPeriod(StartDate, StartDate, -1)}

IsValidPeriod(wp) ==
  /\ parseISO(wp.start_date).valid
  /\ parseISO(wp.end_date).valid
  /\ parseISO(wp.end_date).day >= parseISO(wp.start_date).day
  /\ wp.needed_capacity >= 0

\* the date keys of the grid the caller holds for the period (for a period
\* without a date range: a grid of the one day StartDate)
GridDates(wp) ==
  IF /\ parseISO(wp.start_date).valid
     /\ parseISO(wp.end_date).valid
     /\ parseISO(wp.end_date).day >= parseISO(wp.start_date).day
  THEN {Calendar[k] : k \in parseISO(wp.start_date).day..parseISO(wp.end_date).day}
  ELSE {StartDate}

\* The input grids: every position holds the same background cell (nobody
\* assigned yet, everybody assigned, or everybody assigned and the columns
\* locked), except for at most MaxSpecial positions, which hold another cell
\* or none at all.
\* A cell carries a record id when one of its flags is set (the store has a
\* record of it), and no id otherwise.
Flags == [assigned : BOOLEAN, locked : BOOLEAN, requested_off : BOOLEAN]

Backgrounds ==
  {f \in Flags : ~f.requested_off /\ (f.locked => f.assigned)}

MissingCell == [missing |-> TRUE]

DefaultFlags == [assigned |-> FALSE, locked |-> FALSE, requested_off |-> FALSE]

FlagsCell(f, u, d) ==
  CellData(IF f.assigned \/ f.locked \/ f.requested_off THEN ShiftId(u, d) ELSE Undefined,
           f.assigned, f.locked, f.requested_off)

GridOf(users, dates, background, S, f) ==
  [u \in users |->
    [d \in {e \in dates : ~(<<u, e>> \in S /\ f[<<u, e>>] = MissingCell)} |->
      IF <<u, d>> \in S THEN FlagsCell(f[<<u, d>>], u, d)
      ELSE FlagsCell(background, u, d)]]

InitLocals ==
  /\ pc = "call"
  /\ result = NoRef
  /\ outcome = "running"
  /\ call = 1

InitGrids ==
  \E n \in 1..MaxUsers, wp \in ValidPeriods \cup InvalidPeriods,
     background \in Backgrounds :
    LET users == {AllUsers[k] : k \in 1..n}
        dates == GridDates(wp)
    IN  \E S \in {T \in SUBSET (users \X dates) : Cardinality(T) <= MaxSpecial} :
          \E f \in [S -> (Flags \ {background}) \cup {MissingCell}] :
            /\ workPeriod = wp
            /\ assignedUsers = UsersOf(n)
            /\ snapshot = GridOf(users, dates, background, S, f)
            /\ heap = <<snapshot>>
            /\ scheduleGrid = 1

\* the falsy arguments of the first line of optimizeSchedule
InitNull ==
  \E which \in {"workPeriod", "assignedUsers", "scheduleGrid"} :
    LET g == GridOf({AllUsers[1]}, {StartDate}, DefaultFlags, {}, <<>>) IN
    /\ workPeriod = IF which = "workPeriod" THEN NullPeriod
                    ELSE WorkPeriod(StartDate, StartDate, 1)
    /\ assignedUsers = IF which = "assignedUsers" THEN NullUsers ELSE UsersOf(1)
    /\ heap = IF which = "scheduleGrid" THEN <<>> ELSE <<g>>
    /\ scheduleGrid = IF which = "scheduleGrid" THEN NoRef ELSE 1
    /\ snapshot = IF which = "scheduleGrid" THEN <<>> ELSE g

\* no page: the function is called on its own
NoPage ==
  /\ isAdmin = FALSE
  /\ rendered = <<>>
  /\ pending = <<>>
  /\ inFlight = {}
  /\ batches = <<>>
  /\ toasts = {}
  /\ clicks = 0
  /\ failures = 0

Init == InitLocals /\ (InitGrids \/ InitNull) /\ NoPage /\ shifts = <<>>


NewGridRef_alias(h, ref) == ref

\* ---------------------------------------------------------------- actions
\* JSON.parse returns a fresh object: the reference of the working copy
NewGridRef(h, ref) == Len(h) + 1

\* const userIds = assignedUsers.map(user => user.id)
RECURSIVE UserIdsFrom(_, _)
UserIdsFrom(users, k) ==
  IF k > Len(users) THEN <<>> ELSE <<users[k].id>> \o UserIdsFrom(users, k + 1)

UserIds(users) == UserIdsFrom(users, 1)

\* if (!workPeriod || !assignedUsers || !scheduleGrid) return scheduleGrid;
EarlyReturn ==
  /\ pc = "call"
  /\ workPeriod = NullPeriod \/ assignedUsers = NullUsers \/ scheduleGrid = NoRef
  /\ result' = scheduleGrid
  /\ outcome' = "returned"
  /\ pc' = "done"
  /\ UNCHANGED <<workPeriod, assignedUsers, scheduleGrid, heap, call, snapshot>>
  /\ UNCHANGED pageVars

\* the rest of optimizeSchedule: the deep copy, the day loop that rewrites
\* the object newGrid refers to, and  return newGrid
Optimize ==
  /\ pc = "call"
  /\ workPeriod # NullPeriod /\ assignedUsers # NullUsers /\ scheduleGrid # NoRef
  /\ LET copy == JSONparse(JSONstringify(heap[scheduleGrid]))
         newGrid == NewGridRef(heap, scheduleGrid)
         days == DaysOf(workPeriod)
         userIds == UserIds(assignedUsers)
     IN  /\ heap' = [Append(heap, copy) EXCEPT ![newGrid] =
                       DayLoop(workPeriod, userIds, heap[scheduleGrid], copy, 0, days)]
         /\ result' = newGrid
  /\ outcome' = "returned"
  /\ pc' = "done"
  /\ UNCHANGED <<workPeriod, assignedUsers, scheduleGrid, call, snapshot>>
  /\ UNCHANGED pageVars

\* the caller hands the returned grid to optimizeSchedule once more, with the
\* same period and users
CallAgain ==
  /\ pc = "done"
  /\ call = 1
  /\ call' = 2
  /\ scheduleGrid' = result
  /\ snapshot' = IF result = NoRef THEN <<>> ELSE heap[result]
  /\ pc' = "call"
  /\ outcome' = "running"
  /\ UNCHANGED <<workPeriod, assignedUsers, heap, result>>
  /\ UNCHANGED pageVars

Next ==
  \/ EarlyReturn
  \/ Optimize
  \/ CallAgain

Spec == Init /\ [][Next]_vars

\* ------------------------------------------------------- reading the runs
\* the grid the call was given and the grid it returned
In == snapshot
Out == heap[result]

\* the call went through the optimizer and returned
Optimized ==
  /\ pc = "done"
  /\ workPeriod # NullPeriod /\ assignedUsers # NullUsers /\ scheduleGrid # NoRef

\* the day numbers and date keys of the period
PeriodDays ==
  IF DaysOf(workPeriod).nan THEN {} ELSE 0..(DaysOf(workPeriod).n - 1)
PeriodDateKeys == {DateKeyOf(workPeriod, n) : n \in PeriodDays}

Users == {assignedUsers[k].id : k \in 1..Len(assignedUsers)}

\* the users that have a cell on date d in grid g
CellsOn(g, d) == {u \in Users : HasCell(g, u, d)}

CountOn(g, d) == Cardinality({u \in CellsOn(g, d) : g[u][d].assigned})

\* some cell of date d differs between the input and the output
ChangedOn(d) == \E u \in CellsOn(In, d) : Out[u][d].assigned # In[u][d].assigned

\* (C1) Lock invariance: every cell that is locked in the grid handed to
\* optimizeSchedule has the same assigned value in the grid it returns.
C1_LockInvariance ==
  pc = "done" /\ result # NoRef =>
    \A u \in DOMAIN In : \A d \in DOMAIN In[u] :
      In[u][d].locked =>
        /\ HasCell(Out, u, d)
        /\ Out[u][d].assigned = In[u][d].assigned

\* a locked assigned cell sat on an over-capacity day from which the
\* optimizer removed other users
C1_Witness ==
  /\ Optimized
  /\ \E d \in PeriodDateKeys : \E u \in CellsOn(In, d) :
       /\ In[u][d].locked /\ In[u][d].assigned
       /\ CountOn(In, d) > workPeriod.needed_capacity
       /\ ChangedOn(d)
       /\ Out[u][d].assigned

\* (C2) No new requested-off assignment: a cell that is requested off and
\* unassigned in the input is unassigned in the output.
C2_NoNewRequestedOff ==
  pc = "done" /\ result # NoRef =>
    \A u \in DOMAIN In : \A d \in DOMAIN In[u] :
      In[u][d].requested_off /\ ~In[u][d].assigned =>
        HasCell(Out, u, d) /\ ~Out[u][d].assigned

\* an unlocked requested-off cell was passed over on a day that had no other
\* candidate and therefore stays under capacity
C2_Witness ==
  /\ Optimized
  /\ \E d \in PeriodDateKeys : \E u \in CellsOn(In, d) :
       /\ In[u][d].requested_off /\ ~In[u][d].assigned /\ ~In[u][d].locked
       /\ CountOn(Out, d) < workPeriod.needed_capacity
       /\ ~Out[u][d].assigned

\* (C3) Frame: the output grid has the users and date keys of the input
\* grid, and every cell keeps its locked, requested_off and id.
C3_Frame ==
  pc = "done" /\ result # NoRef =>
    /\ DOMAIN Out = DOMAIN In
    /\ \A u \in DOMAIN In :
         /\ DOMAIN Out[u] = DOMAIN In[u]
         /\ \A d \in DOMAIN In[u] :
              /\ Out[u][d].locked = In[u][d].locked
              /\ Out[u][d].requested_off = In[u][d].requested_off
              /\ Out[u][d].id = In[u][d].id

\* the optimizer changed the assignment of a cell that carries a record id,
\* in a grid that also holds a cell without one
C3_Witness ==
  /\ Optimized
  /\ \E d \in PeriodDateKeys : \E u \in CellsOn(In, d) :
       In[u][d].id # Undefined /\ Out[u][d].assigned # In[u][d].assigned
  /\ \E d \in PeriodDateKeys : \E u \in CellsOn(In, d) : In[u][d].id = Undefined

\* (C4) No mutation of the arguments: across a call the period, the users
\* list and the object the scheduleGrid argument refers to keep their values.
C4_InputNotMutated ==
  [][pc = "call" /\ pc' = "done" =>
       /\ workPeriod' = workPeriod
       /\ assignedUsers' = assignedUsers
       /\ scheduleGrid' = scheduleGrid
       /\ scheduleGrid # NoRef => heap'[scheduleGrid] = heap[scheduleGrid]]_vars

\* a call returned a grid that differs from the one it was given, which
\* still holds the values it had at the call
C4_Witness ==
  /\ Optimized
  /\ result # scheduleGrid
  /\ Out # heap[scheduleGrid]
  /\ heap[scheduleGrid] = In

\* the counts the feasibility of a day is stated with, on the input grid
NonLockedOn(d) == Cardinality({u \in CellsOn(In, d) : ~In[u][d].locked})
RequestedOffOn(d) == Cardinality({u \in CellsOn(In, d) : In[u][d].requested_off})
LockedAssignedOn(d) ==
  Cardinality({u \in CellsOn(In, d) : In[u][d].locked /\ In[u][d].assigned})
AssignedOrFreeOn(d) ==
  Cardinality({u \in CellsOn(In, d) :
                 In[u][d].assigned \/ (~In[u][d].locked /\ ~In[u][d].requested_off)})

\* (C5, as claimed) a day with at least neededCapacity non-locked cells and
\* no requested-off cell ends with exactly neededCapacity assigned users
\* (stated for a capacity of at least 1; it fails for capacity 0 as well).
C5_AsClaimed ==
  Optimized /\ IsValidPeriod(workPeriod) /\ workPeriod.needed_capacity >= 1 =>
    \A d \in PeriodDateKeys :
      NonLockedOn(d) >= workPeriod.needed_capacity /\ RequestedOffOn(d) = 0 =>
        CountOn(Out, d) = workPeriod.needed_capacity

\* (C5) Capacity convergence when feasible: a day with at least
\* neededCapacity non-locked cells, at most neededCapacity locked assigned
\* cells and at least neededCapacity cells that are assigned or free to
\* assign ends with exactly neededCapacity assigned users.
C5_Convergence ==
  Optimized /\ IsValidPeriod(workPeriod) =>
    \A d \in PeriodDateKeys :
      /\ NonLockedOn(d) >= workPeriod.needed_capacity
      /\ LockedAssignedOn(d) <= workPeriod.needed_capacity
      /\ AssignedOrFreeOn(d) >= workPeriod.needed_capacity
      => CountOn(Out, d) = workPeriod.needed_capacity

\* a feasible day that held a locked assigned cell and was off target was
\* brought to exactly neededCapacity
C5_Witness ==
  /\ Optimized /\ IsValidPeriod(workPeriod)
  /\ \E d \in PeriodDateKeys :
       /\ NonLockedOn(d) >= workPeriod.needed_capacity
       /\ LockedAssignedOn(d) <= workPeriod.needed_capacity
       /\ AssignedOrFreeOn(d) >= workPeriod.needed_capacity
       /\ LockedAssignedOn(d) > 0
       /\ CountOn(In, d) # workPeriod.needed_capacity
       /\ CountOn(Out, d) = workPeriod.needed_capacity

\* every day of the period has exactly neededCapacity assigned users in g
AtCapacityEveryDay(g) ==
  \A d \in PeriodDateKeys : CountOn(g, d) = workPeriod.needed_capacity

\* (C6) Idempotence at a fixed point: when the grid returned by the first
\* call has every day exactly at capacity, the second call, made on that
\* grid, returns a grid equal to it.
C6_FixedPoint ==
  Optimized /\ call = 2 /\ AtCapacityEveryDay(In) => Out = In

\* the first call changed the grid, brought every day to capacity, and the
\* second call returned
C6_Witness ==
  /\ Optimized /\ call = 2 /\ IsValidPeriod(workPeriod)
  /\ heap[1] # In
  /\ AtCapacityEveryDay(In)
  /\ result # scheduleGrid

\* the grid in which no user is assigned, locked or requested off
AllDefault(g) ==
  \A u \in DOMAIN g : \A d \in DOMAIN g[u] :
    ~g[u][d].assigned /\ ~g[u][d].locked /\ ~g[u][d].requested_off

\* the scenario of users A, B, C, two days, capacity 1, nobody assigned
Scenario8 ==
  /\ Optimized /\ call = 1
  /\ UserIds(assignedUsers) = <<"A", "B", "C">>
  /\ workPeriod = WorkPeriod("2024-01-01", "2024-01-02", 1)
  /\ DOMAIN In = {"A", "B", "C"}
  /\ \A u \in DOMAIN In : DOMAIN In[u] = {"2024-01-01", "2024-01-02"}
  /\ AllDefault(In)

\* (C8) Live workload ranking: in that scenario A ends assigned on day 1
\* only, B on day 2 only and C on neither day.
C8_LiveRanking ==
  Scenario8 =>
    /\ Out["A"]["2024-01-01"].assigned /\ ~Out["A"]["2024-01-02"].assigned
    /\ ~Out["B"]["2024-01-01"].assigned /\ Out["B"]["2024-01-02"].assigned
    /\ ~Out["C"]["2024-01-01"].assigned /\ ~Out["C"]["2024-01-02"].assigned

C8_Witness == Scenario8 /\ CountOn(Out, "2024-01-02") = 1

\* the scenario of users A, B, one day, capacity 1, both assigned and unlocked
Scenario9 ==
  /\ Optimized /\ call = 1
  /\ UserIds(assignedUsers) = <<"A", "B">>
  /\ workPeriod = WorkPeriod("2024-01-01", "2024-01-01", 1)
  /\ DOMAIN In = {"A", "B"}
  /\ \A u \in DOMAIN In :
       /\ DOMAIN In[u] = {"2024-01-01"}
       /\ In[u]["2024-01-01"].assigned /\ ~In[u]["2024-01-01"].locked

\* (C9, as claimed) in that scenario B is unassigned and A stays assigned.
C9_AsClaimed ==
  Scenario9 =>
    Out["A"]["2024-01-01"].assigned /\ ~Out["B"]["2024-01-01"].assigned

\* (C9) Over-capacity tie-break: in that scenario exactly one user is
\* unassigned, and it is the first-ranked one: A is unassigned, B stays.
C9_TieBreak ==
  Scenario9 =>
    ~Out["A"]["2024-01-01"].assigned /\ Out["B"]["2024-01-01"].assigned

C9_Witness == Scenario9 /\ CountOn(Out, "2024-01-01") = 1

\* (C10) Invalid input fails fast: a call with a period whose end is before
\* its start, with a malformed date or with a negative capacity ends with an
\* InvalidInput error and returns no grid.
C10_FailFast ==
  pc = "done" /\ workPeriod # NullPeriod /\ ~IsValidPeriod(workPeriod) =>
    outcome = "InvalidInput" /\ result = NoRef

\* ------------------------------------------------- initializeScheduleGrid
MaxShifts == 2

WorkPeriodId == "wp1"

ShiftRecord(id, u, d, a, l, r) ==
  [id |-> id, work_period_id |-> WorkPeriodId, user_id |-> u, shift_date |-> d,
   assigned |-> a, locked |-> l, requested_off |-> r]

\* the day numbers  i  of  for (let i = 0; i < days; i++)
DayNumbers(wp) == IF DaysOf(wp).nan THEN {} ELSE 0..(DaysOf(wp).n - 1)

\* users.forEach(user => { grid[user.id] = {}; for (...) grid[user.id][dateKey] =
\* { assigned: false, locked: false, requested_off: false } })
EmptyGrid(wp, users) ==
  [u \in {users[k].id : k \in 1..Len(users)} |->
    [d \in {DateKeyOf(wp, n) : n \in DayNumbers(wp)} |-> DefaultCell]]


CellOfShift_swapped(shift) ==
  CellData(shift.id, shift.assigned, shift.requested_off, shift.locked)

\* { id: shift.id, assigned: shift.assigned, locked: shift.locked,
\*   requested_off: shift.requested_off }
CellOfShift(shift) ==
  CellData(shift.id, shift.assigned, shift.locked, shift.requested_off)

\* if (grid[shift.user_id] && grid[shift.user_id][shift.shift_date]) { ... }
OverlayShift(grid, shift) ==
  IF HasCell(grid, shift.user_id, shift.shift_date)
  THEN [grid EXCEPT ![shift.user_id][shift.shift_date] = CellOfShift(shift)]
  ELSE grid

\* shifts.forEach(shift => ...), from position k on
RECURSIVE OverlayFrom(_, _, _)
OverlayFrom(grid, records, k) ==
  IF k > Len(records) THEN grid
  ELSE OverlayFrom(OverlayShift(grid, records[k]), records, k + 1)

initializeScheduleGrid(wp, users, records) ==
  OverlayFrom(EmptyGrid(wp, users), records, 1)

\* The arguments of the calls: a period, the first n users, and up to
\* MaxShifts records, each for the first or the last user of the list or for
\* a user that is not in it, on the first or the last day of the period or on
\* the day before it.
RecordId(k) == "s" \o ToString(k)

ShiftFlags ==
  {f \in Flags : Cardinality({x \in {"assigned", "locked", "requested_off"} : f[x]}) = 1}

ShiftChoices(n, wp) ==
  {ShiftRecord("", u, d, f.assigned, f.locked, f.requested_off) :
     u \in {AllUsers[1], AllUsers[IF n = 0 THEN 1 ELSE n], AllUsers[n + 1]},
     d \in {wp.start_date, wp.end_date, Calendar[1]} \cap
           {Calendar[k] : k \in 1..Len(Calendar)},
     f \in ShiftFlags}

InitInitialize ==
  /\ InitLocals
  /\ NoPage
  /\ scheduleGrid = NoRef
  /\ heap = <<>>
  /\ snapshot = <<>>
  /\ \E n \in 0..MaxUsers,
        wp \in {p \in ValidPeriods \cup InvalidPeriods : p.needed_capacity = 1},
        m \in 0..MaxShifts :
       \E c \in [1..m -> ShiftChoices(n, wp)] :
         /\ workPeriod = wp
         /\ assignedUsers = UsersOf(n)
         /\ shifts = [k \in 1..m |-> [c[k] EXCEPT !.id = RecordId(k)]]

\* one call of initializeScheduleGrid(workPeriod, users, shifts), which
\* returns a new grid object
Initialize ==
  /\ pc = "call"
  /\ heap' = Append(heap, initializeScheduleGrid(workPeriod, assignedUsers, shifts))
  /\ result' = Len(heap) + 1
  /\ outcome' = "returned"
  /\ pc' = "done"
  /\ UNCHANGED <<workPeriod, assignedUsers, scheduleGrid, call, snapshot>>
  /\ UNCHANGED pageVars

NextInitialize == Initialize

SpecInitialize == InitInitialize /\ [][NextInitialize]_vars

\* the dates of the inclusive range [start_date, end_date]
RangeDates(wp) ==
  {Calendar[k] : k \in parseISO(wp.start_date).day..parseISO(wp.end_date).day}

DatesParse(wp) == parseISO(wp.start_date).valid /\ parseISO(wp.end_date).valid

\* the positions of the records for user u on date d
RecordsFor(u, d) ==
  {k \in 1..Len(shifts) : shifts[k].user_id = u /\ shifts[k].shift_date = d}

\* (C11) initializeScheduleGrid returns a grid with exactly one cell for every
\* user of the list and every date from start_date to end_date, and no other
\* cell; a cell carries the id, assigned, locked and requested_off of a record
\* for its user and date when there is one, and is the default cell without id
\* otherwise; records for other users or dates leave no trace.
C11_InitializedGrid ==
  pc = "done" /\ DatesParse(workPeriod) =>
    /\ DOMAIN Out = Users
    /\ \A u \in Users :
         /\ DOMAIN Out[u] = RangeDates(workPeriod)
         /\ \A d \in RangeDates(workPeriod) :
              IF RecordsFor(u, d) = {}
              THEN Out[u][d] = [id |-> Undefined, assigned |-> FALSE, locked |-> FALSE,
                                requested_off |-> FALSE]
              ELSE \E k \in RecordsFor(u, d) :
                     /\ Out[u][d].id = shifts[k].id
                     /\ Out[u][d].assigned = shifts[k].assigned
                     /\ Out[u][d].locked = shifts[k].locked
                     /\ Out[u][d].requested_off = shifts[k].requested_off

\* a grid was built in which one cell took a record's values, another cell
\* stayed the default, and a record for a user or a date outside the grid was
\* passed over
C11_Witness ==
  /\ pc = "done" /\ DatesParse(workPeriod)
  /\ \E u \in Users : \E d \in RangeDates(workPeriod) :
       RecordsFor(u, d) # {} /\ Out[u][d].id # Undefined
  /\ \E u \in Users : \E d \in RangeDates(workPeriod) :
       RecordsFor(u, d) = {} /\ Out[u][d].id = Undefined
  /\ \E k \in 1..Len(shifts) :
       shifts[k].user_id \notin Users \/ shifts[k].shift_date \notin RangeDates(workPeriod)

\* ------------------------------------------- the pass of one day, read back
\* The calls that get past the first line of optimizeSchedule: all three
\* arguments are there, and every call runs the day loop.
InitDays == InitLocals /\ InitGrids /\ NoPage /\ shifts = <<>>

NextDays ==
  \/ Optimize
  \/ CallAgain

SpecDays == InitDays /\ [][NextDays]_vars

\* The pass of day number n rewrites cells of that day only, so the live grid
\* at the start of the pass holds the output cells of the days before it and
\* the input cells of the days from it on.
DaysBefore(n) == {DateKeyOf(workPeriod, m) : m \in 0..(n - 1)}

LiveCount(u, n) ==
  LET done == DaysBefore(n) IN
  Cardinality({e \in DOMAIN In[u] :
                 IF e \in done THEN Out[u][e].assigned ELSE In[u][e].assigned})

\* the position of user u in the users argument
PosOf(u) == CHOOSE k \in 1..Len(assignedUsers) : assignedUsers[k].id = u

\* the users of U, each with its live count at the start of pass n and its
\* position in the argument
Ranked(U, n) == {<<LiveCount(u, n), PosOf(u), u>> : u \in U}

\* p comes before q in the ascending (descending) order of the live counts,
\* users of equal count in the order of the argument
BeforeAscending(p, q) == p[1] < q[1] \/ (p[1] = q[1] /\ p[2] < q[2])
BeforeDescending(p, q) == p[1] > q[1] \/ (p[1] = q[1] /\ p[2] < q[2])

\* the first k users of a ranked set R in each of the two orders
FirstAscending(R, k) ==
  {p[3] : p \in {q \in R : Cardinality({r \in R : BeforeAscending(r, q)}) < k}}
FirstDescending(R, k) ==
  {p[3] : p \in {q \in R : Cardinality({r \in R : BeforeDescending(r, q)}) < k}}

Min(a, b) == IF a < b THEN a ELSE b
Max(a, b) == IF a > b THEN a ELSE b

\* the users whose cell on d is free to assign, and those whose cell can be
\* taken away
EligibleOn(d) ==
  {u \in CellsOn(In, d) :
     ~In[u][d].assigned /\ ~In[u][d].locked /\ ~In[u][d].requested_off}
RemovableOn(d) == {u \in CellsOn(In, d) : In[u][d].assigned /\ ~In[u][d].locked}

NewlyAssignedOn(d) == {u \in CellsOn(In, d) : ~In[u][d].assigned /\ Out[u][d].assigned}
UnassignedOn(d) == {u \in CellsOn(In, d) : In[u][d].assigned /\ ~Out[u][d].assigned}

\* (C17) Under-capacity selection: on a day whose assigned count c is below
\* neededCapacity N, the newly assigned users are exactly the first
\* min(N - c, F) of the F eligible users in ascending order of the live total
\* counts, equal counts in the order of the users argument.
C17_UnderCapacitySelection ==
  Optimized /\ IsValidPeriod(workPeriod) =>
    \A n \in PeriodDays :
      LET d == DateKeyOf(workPeriod, n)
          c == CountOn(In, d)
          take == Min(workPeriod.needed_capacity - c, Cardinality(EligibleOn(d)))
      IN  c < workPeriod.needed_capacity =>
            NewlyAssignedOn(d) = FirstAscending(Ranked(EligibleOn(d), n), take)

\* on an under-capacity day a user later in the list was assigned and an
\* eligible user earlier in the list, with more assigned days, was not
C17_Witness ==
  /\ Optimized /\ IsValidPeriod(workPeriod)
  /\ \E n \in PeriodDays :
       LET d == DateKeyOf(workPeriod, n) IN
       /\ CountOn(In, d) < workPeriod.needed_capacity
       /\ \E u \in NewlyAssignedOn(d) : \E v \in EligibleOn(d) \ NewlyAssignedOn(d) :
            PosOf(v) < PosOf(u) /\ LiveCount(v, n) > LiveCount(u, n)

\* (C18) Over-capacity removal: on a day whose assigned count c is above
\* neededCapacity N, the users unassigned are exactly the first min(c - N, R)
\* of the R users with an assigned, unlocked cell (requested off or not) in
\* descending order of the live total counts, equal counts in the order of the
\* users argument.
C18_OverCapacityRemoval ==
  Optimized /\ IsValidPeriod(workPeriod) =>
    \A n \in PeriodDays :
      LET d == DateKeyOf(workPeriod, n)
          c == CountOn(In, d)
          take == Min(c - workPeriod.needed_capacity, Cardinality(RemovableOn(d)))
      IN  c > workPeriod.needed_capacity =>
            UnassignedOn(d) = FirstDescending(Ranked(RemovableOn(d), n), take)

\* on an over-capacity day a user later in the list was unassigned and a
\* removable user earlier in the list, with fewer assigned days, was kept
C18_Witness ==
  /\ Optimized /\ IsValidPeriod(workPeriod)
  /\ \E n \in PeriodDays :
       LET d == DateKeyOf(workPeriod, n) IN
       /\ CountOn(In, d) > workPeriod.needed_capacity
       /\ \E u \in UnassignedOn(d) : \E v \in RemovableOn(d) \ UnassignedOn(d) :
            PosOf(v) < PosOf(u) /\ LiveCount(v, n) < LiveCount(u, n)

\* (C19) Per-day result count: with c the input assigned count of a day, F its
\* number of eligible cells and L its number of locked assigned cells, the
\* output count of the day is min(N, c + F) if c < N, max(N, L) if c > N, and
\* N if c = N, for a neededCapacity N >= 0.
C19_ResultCount ==
  Optimized /\ IsValidPeriod(workPeriod) =>
    \A d \in PeriodDateKeys :
      LET c == CountOn(In, d)
          N == workPeriod.needed_capacity
      IN  CountOn(Out, d) =
            IF c < N THEN Min(N, c + Cardinality(EligibleOn(d)))
            ELSE IF c > N THEN Max(N, LockedAssignedOn(d))
            ELSE N

\* a run that left one day short of the target for want of eligible cells,
\* or over it because of locked assigned cells, after changing it
C19_Witness ==
  /\ Optimized /\ IsValidPeriod(workPeriod)
  /\ \E d \in PeriodDateKeys :
       /\ ChangedOn(d)
       /\ CountOn(Out, d) # workPeriod.needed_capacity

\* (C20) Direction of change per day: a day at capacity keeps every cell; on
\* an under-capacity day no assigned cell is unassigned (an assigned
\* requested-off unlocked cell included); on an over-capacity day no
\* unassigned cell is assigned.
C20_Direction ==
  Optimized /\ IsValidPeriod(workPeriod) =>
    \A d \in PeriodDateKeys :
      LET c == CountOn(In, d)
          N == workPeriod.needed_capacity
      IN  /\ c = N => \A u \in CellsOn(In, d) : Out[u][d] = In[u][d]
          /\ c < N => UnassignedOn(d) = {}
          /\ c > N => NewlyAssignedOn(d) = {}

\* an under-capacity day on which a user was newly assigned while an assigned,
\* requested-off, unlocked cell stayed assigned
C20_Witness ==
  /\ Optimized /\ IsValidPeriod(workPeriod)
  /\ \E d \in PeriodDateKeys :
       /\ CountOn(In, d) < workPeriod.needed_capacity
       /\ NewlyAssignedOn(d) # {}
       /\ \E u \in CellsOn(In, d) :
            /\ In[u][d].assigned /\ In[u][d].requested_off /\ ~In[u][d].locked
            /\ Out[u][d].assigned

\* ------------------------------------------------------- the schedule page
\* ScheduleGridComponent with the page that holds its state.  A handler reads
\* the scheduleGrid of the render it was created in; setScheduleGrid from a
\* click is rendered before the next event, while the grid set by the reload
\* effect waits for a render, and a click may come first.  The store settles
\* the writes in any order; the refetch a successful write sets off is taken
\* to return the rows as that write left them.
MaxClicks == 3
MaxInFlight == 2
MaxFailures == 1

\* a click is taken while fewer than MaxInFlight writes are outstanding
MayClick == clicks < MaxClicks /\ Cardinality(inFlight) < MaxInFlight

StoreError == "store error"

\* updateShiftMutation.mutate({ shiftId, updates })
UpdateShift(shiftId, updates) ==
  [mutation |-> "update", shiftId |-> shiftId, updates |-> updates]

CreateShift_unassigned(u, d, a, l, r) ==
  [mutation |-> "create",
   newShift |-> [work_period_id |-> WorkPeriodId, user_id |-> u, shift_date |-> d,
                 assigned |-> FALSE, locked |-> l, requested_off |-> r]]

\* createShiftMutation.mutate({ work_period_id, user_id, shift_date, ... })
CreateShift(u, d, a, l, r) ==
  [mutation |-> "create",
   newShift |-> [work_period_id |-> WorkPeriodId, user_id |-> u, shift_date |-> d,
                 assigned |-> a, locked |-> l, requested_off |-> r]]

\* supabase.from('shifts').update(updates).eq('id', shiftId)
UpdatedRow(row, updates) ==
  ShiftRecord(row.id, row.user_id, row.shift_date,
              IF "assigned" \in DOMAIN updates THEN updates.assigned ELSE row.assigned,
              IF "locked" \in DOMAIN updates THEN updates.locked ELSE row.locked,
              IF "requested_off" \in DOMAIN updates THEN updates.requested_off
              ELSE row.requested_off)

RECURSIVE UpdateRows(_, _, _)
UpdateRows(table, w, k) ==
  IF k > Len(table) THEN <<>>
  ELSE <<IF table[k].id = w.shiftId THEN UpdatedRow(table[k], w.updates) ELSE table[k]>>
       \o UpdateRows(table, w, k + 1)

\* supabase.from('shifts').insert([newShift]): the new row gets a fresh id
InsertRow(table, w) ==
  Append(table, ShiftRecord(RecordId(Len(table) + 1), w.newShift.user_id,
                            w.newShift.shift_date, w.newShift.assigned,
                            w.newShift.locked, w.newShift.requested_off))

\* the table after a write that succeeded
Written(table, w) ==
  IF w.mutation = "update" THEN UpdateRows(table, w, 1) ELSE InsertRow(table, w)

\* toast({ title, description })
Toast(title, description) == [title |-> title, description |-> description]

\* onError of the two mutations
MutationErrorToast(w) ==
  Toast(IF w.mutation = "update" THEN "Error updating shift" ELSE "Error creating shift",
        StoreError)

\* prev => ({ ...prev, [userId]: { ...prev[userId], [dateKey]:
\*   { ...prev[userId][dateKey], assigned: !prev[userId][dateKey].assigned } } })
WithAssignedToggled(prev, u, d) == [prev EXCEPT ![u][d].assigned = ~@]

\* the same with  locked: !prev[userId][dateKey].locked
WithLockedToggled(prev, u, d) == [prev EXCEPT ![u][d].locked = ~@]

\* a state update made in a click: rendered at once, and applied again on
\* top of the reloaded grid when that one is rendered
RebasedAssigned(queue, u, d) ==
  [k \in DOMAIN queue |-> WithAssignedToggled(queue[k], u, d)]

RebasedLocked(queue, u, d) ==
  [k \in DOMAIN queue |-> WithLockedToggled(queue[k], u, d)]

\* assignedUsers.every(user => scheduleGrid[user.id]?.[dateKey]?.locked)
isColumnLocked(dateKey, users, grid) ==
  \A k \in 1..Len(users) :
    HasCell(grid, users[k].id, dateKey) /\ grid[users[k].id][dateKey].locked

\* newGrid[user.id][dateKey].locked = newLockState, for every user with a cell
WithColumnLock(grid, users, dateKey, newLockState) ==
  [u \in DOMAIN grid |->
    [d \in DOMAIN grid[u] |->
      IF d = dateKey /\ \E k \in 1..Len(users) : users[k].id = u
      THEN [grid[u][d] EXCEPT !.locked = newLockState]
      ELSE grid[u][d]]]

\* optimizeSchedule with its three arguments present
optimizeSchedule(wp, users, grid) ==
  DayLoop(wp, UserIds(users), grid, JSONparse(JSONstringify(grid)), 0, DaysOf(wp))

\* the write each handler issues for a cell: an update of the record the cell
\* carries the id of, or the creation of a record
ToggleWrite(cellData, u, d, field) ==
  IF cellData.id # Undefined
  THEN UpdateShift(cellData.id,
                   IF field = "assigned" THEN [assigned |-> ~cellData.assigned]
                   ELSE [locked |-> ~cellData.locked])
  ELSE CreateShift(u, d,
                   IF field = "assigned" THEN ~cellData.assigned ELSE cellData.assigned,
                   IF field = "locked" THEN ~cellData.locked ELSE cellData.locked,
                   cellData.requested_off)

ColumnLockWrite(cellData, u, d, newLockState) ==
  IF cellData.id # Undefined
  THEN UpdateShift(cellData.id, [locked |-> newLockState])
  ELSE CreateShift(u, d, cellData.assigned, newLockState, cellData.requested_off)


CellChanged_always(oldCell, newCell) == TRUE

\* oldCell.assigned !== newCell.assigned || oldCell.locked !== newCell.locked ||
\* oldCell.requested_off !== newCell.requested_off
CellChanged(oldCell, newCell) ==
  \/ oldCell.assigned # newCell.assigned
  \/ oldCell.locked # newCell.locked
  \/ oldCell.requested_off # newCell.requested_off


OptimizerWrite_oldValues(oldCell, newCell, u, d) ==
  IF oldCell.id # Undefined
  THEN UpdateShift(oldCell.id,
                   [assigned |-> oldCell.assigned, locked |-> oldCell.locked,
                    requested_off |-> oldCell.requested_off])
  ELSE CreateShift(u, d, oldCell.assigned, oldCell.locked, oldCell.requested_off)

\* if (oldCell.id) update ... else create ..., with the values of newCell
OptimizerWrite(oldCell, newCell, u, d) ==
  IF oldCell.id # Undefined
  THEN UpdateShift(oldCell.id,
                   [assigned |-> newCell.assigned, locked |-> newCell.locked,
                    requested_off |-> newCell.requested_off])
  ELSE CreateShift(u, d, newCell.assigned, newCell.locked, newCell.requested_off)

\* the promises pushed by the two loops of runOptimizer
OptimizerWrites(wp, users, oldGrid, newGrid) ==
  {OptimizerWrite(oldGrid[p[1]][p[2]], newGrid[p[1]][p[2]], p[1], p[2]) :
     p \in {q \in {users[k].id : k \in 1..Len(users)} \X
                  {DateKeyOf(wp, n) : n \in DayNumbers(wp)} :
              /\ HasCell(oldGrid, q[1], q[2])
              /\ HasCell(newGrid, q[1], q[2])
              /\ CellChanged(oldGrid[q[1]][q[2]], newGrid[q[1]][q[2]])}}

\* the promises pushed by toggleColumnLock
ColumnLockWrites(users, grid, dateKey, newLockState) ==
  {ColumnLockWrite(grid[u][dateKey], u, dateKey, newLockState) :
     u \in {v \in {users[k].id : k \in 1..Len(users)} : HasCell(grid, v, dateKey)}}

\* a Promise.all over the writes of one click, and the toast it ends with
Batch(click, handler, grid, lock, total) ==
  [click |-> click, handler |-> handler, snapshot |-> grid, lock |-> lock,
   total |-> total, succeeded |-> 0, failed |-> 0,
   state |-> IF total = 0 THEN "resolved" ELSE "pending"]

ResolvedToast(b) ==
  IF b.handler = "runOptimizer"
  THEN Toast("Schedule Optimized", "The schedule has been successfully optimized.")
  ELSE Toast(IF b.lock THEN "Column Locked" ELSE "Column Unlocked",
             IF b.lock THEN "All shifts have been locked."
             ELSE "All shifts have been unlocked.")

RejectedToast(b) ==
  Toast(IF b.handler = "runOptimizer" THEN "Error Optimizing Schedule"
        ELSE "Error updating shifts", StoreError)

\* the batch after one of its writes settled
Settled(b, ok) ==
  [b EXCEPT !.succeeded = IF ok THEN @ + 1 ELSE @,
            !.failed = IF ok THEN @ ELSE @ + 1,
            !.state = IF @ # "pending" THEN @
                      ELSE IF ~ok THEN "rejected"
                      ELSE IF b.succeeded + 1 = b.total THEN "resolved"
                      ELSE "pending"]

\* the toasts a batch shows when it goes from state `before` to the state of b
BatchToasts(before, b) ==
  IF before = b.state THEN {}
  ELSE IF b.state = "resolved" THEN {ResolvedToast(b)}
  ELSE {RejectedToast(b)}

\* The page at its start: the store holds at most one record per cell of the
\* grid, the shifts query has returned the rows, and the grid made of them is
\* rendered.
PageUsers == 2
PageDays == 1

NoRecord == [none |-> TRUE]

StoredFlags ==
  {f \in Flags : ~f.locked /\ (f.assigned # f.requested_off)}

\* the cells of the grid, user by user
PageCells(n, wp) ==
  [i \in 1..(n * DaysOf(wp).n) |->
    <<AllUsers[((i - 1) \div DaysOf(wp).n) + 1], DateKeyOf(wp, (i - 1) % DaysOf(wp).n)>>]

RECURSIVE TableFrom(_, _, _, _)
TableFrom(cells, c, k, table) ==
  IF k > Len(cells) THEN table
  ELSE TableFrom(cells, c, k + 1,
         IF c[cells[k]] = NoRecord THEN table
         ELSE Append(table,
                ShiftRecord(RecordId(Len(table) + 1), cells[k][1], cells[k][2],
                            c[cells[k]].assigned, c[cells[k]].locked,
                            c[cells[k]].requested_off)))

InitPage ==
  /\ pc = "page"
  /\ result = NoRef
  /\ outcome = "running"
  /\ call = 1
  /\ scheduleGrid = NoRef
  /\ heap = <<>>
  /\ snapshot = <<>>
  /\ \E admin \in BOOLEAN,
        wp \in {p \in ValidPeriods : DaysOf(p).n <= PageDays /\ p.needed_capacity >= 1} :
       LET cells == PageCells(PageUsers, wp) IN
       \E c \in [{cells[i] : i \in 1..Len(cells)} -> StoredFlags \cup {NoRecord}] :
         /\ isAdmin = admin
         /\ workPeriod = wp
         /\ assignedUsers = UsersOf(PageUsers)
         /\ shifts = TableFrom(cells, c, 1, <<>>)
         /\ rendered = initializeScheduleGrid(wp, assignedUsers, shifts)
  /\ pending = <<>>
  /\ inFlight = {}
  /\ batches = {}
  /\ toasts = {}
  /\ clicks = 0
  /\ failures = 0

\* what no handler and no callback of the page changes
PageFrame == UNCHANGED <<workPeriod, assignedUsers, isAdmin, callVars>>

\* onClick={() => toggleAssignment(user.id, dateKey)}
toggleAssignment(userId, dateKey) ==
  /\ MayClick
  /\ HasCell(rendered, userId, dateKey)
  /\ clicks' = clicks + 1
  /\ IF ~isAdmin \/ rendered[userId][dateKey].locked
     THEN UNCHANGED <<rendered, pending, inFlight>>
     ELSE LET cellData == rendered[userId][dateKey] IN
          /\ rendered' = WithAssignedToggled(rendered, userId, dateKey)
          /\ pending' = RebasedAssigned(pending, userId, dateKey)
          /\ inFlight' = inFlight \cup
               {[click |-> clicks + 1,
                 write |-> ToggleWrite(cellData, userId, dateKey, "assigned")]}
  /\ UNCHANGED <<shifts, batches, toasts, failures>>
  /\ PageFrame

toggleLock_anyone(userId, dateKey) ==
  /\ MayClick
  /\ HasCell(rendered, userId, dateKey)
  /\ clicks' = clicks + 1
  /\ rendered' = WithLockedToggled(rendered, userId, dateKey)
  /\ pending' = RebasedLocked(pending, userId, dateKey)
  /\ inFlight' = inFlight \cup
       {[click |-> clicks + 1,
         write |-> ToggleWrite(rendered[userId][dateKey], userId, dateKey, "locked")]}
  /\ UNCHANGED <<shifts, batches, toasts, failures>>
  /\ PageFrame

\* onClick={(e) => { e.stopPropagation(); toggleLock(user.id, dateKey); }}
toggleLock(userId, dateKey) ==
  /\ MayClick
  /\ HasCell(rendered, userId, dateKey)
  /\ clicks' = clicks + 1
  /\ IF ~isAdmin
     THEN UNCHANGED <<rendered, pending, inFlight>>
     ELSE LET cellData == rendered[userId][dateKey] IN
          /\ rendered' = WithLockedToggled(rendered, userId, dateKey)
          /\ pending' = RebasedLocked(pending, userId, dateKey)
          /\ inFlight' = inFlight \cup
               {[click |-> clicks + 1,
                 write |-> ToggleWrite(cellData, userId, dateKey, "locked")]}
  /\ UNCHANGED <<shifts, batches, toasts, failures>>
  /\ PageFrame

\* a batch starts: its writes go out, and an empty batch resolves at once
StartBatch(b, writes) ==
  /\ inFlight' = inFlight \cup {[click |-> b.click, write |-> w] : w \in writes}
  /\ batches' = batches \cup {c \in {b} : c.total > 0}
  /\ toasts' = toasts \cup BatchToasts("pending", b)

\* onClick={() => toggleColumnLock(dateKey)}
toggleColumnLock(dateKey) ==
  /\ MayClick
  /\ dateKey \in {DateKeyOf(workPeriod, n) : n \in DayNumbers(workPeriod)}
  /\ clicks' = clicks + 1
  /\ IF ~isAdmin
     THEN UNCHANGED <<rendered, pending, inFlight, batches, toasts>>
     ELSE LET newLockState == ~isColumnLocked(dateKey, assignedUsers, rendered)
              newGrid == WithColumnLock(rendered, assignedUsers, dateKey, newLockState)
              writes == ColumnLockWrites(assignedUsers, newGrid, dateKey, newLockState)
          IN  /\ rendered' = newGrid
              /\ pending' = <<>>
              /\ StartBatch(Batch(clicks + 1, "toggleColumnLock", <<>>, newLockState,
                                  Cardinality(writes)), writes)
  /\ UNCHANGED <<shifts, failures>>
  /\ PageFrame

\* <Button onClick={runOptimizer}>Optimize Schedule</Button>
runOptimizer ==
  /\ MayClick
  /\ clicks' = clicks + 1
  /\ IF ~isAdmin
     THEN UNCHANGED <<rendered, pending, inFlight, batches, toasts>>
     ELSE LET newGrid == optimizeSchedule(workPeriod, assignedUsers, rendered)
              writes == OptimizerWrites(workPeriod, assignedUsers, rendered, newGrid)
          IN  /\ rendered' = newGrid
              /\ pending' = <<>>
              /\ StartBatch(Batch(clicks + 1, "runOptimizer", rendered, FALSE,
                                  Cardinality(writes)), writes)
  /\ UNCHANGED <<shifts, failures>>
  /\ PageFrame

\* the batch, if any, that the write w belongs to
BatchOf(w) == {b \in batches : b.click = w.click}

\* the batches after the write w settled; a batch is kept until the last of
\* its writes has settled
AfterSettling(w, ok) ==
  (batches \ BatchOf(w)) \cup
  {c \in {Settled(b, ok) : b \in BatchOf(w)} : c.succeeded + c.failed < c.total}

\* a write reaches the store and succeeds: onSuccess invalidates the shifts
\* query, the query refetches, and when the rows it returns differ from the
\* last ones the reload effect builds the grid anew and sets it
writeSucceeds(w) ==
  /\ w \in inFlight
  /\ inFlight' = inFlight \ {w}
  /\ shifts' = Written(shifts, w.write)
  /\ pending' = IF shifts' # shifts
                THEN <<initializeScheduleGrid(workPeriod, assignedUsers, shifts')>>
                ELSE pending
  /\ batches' = AfterSettling(w, TRUE)
  /\ toasts' = toasts \cup
       UNION {BatchToasts(b.state, Settled(b, TRUE)) : b \in BatchOf(w)}
  /\ UNCHANGED <<rendered, clicks, failures>>
  /\ PageFrame

writeFails_retried(w) ==
  /\ w \in inFlight
  /\ failures < MaxFailures
  /\ failures' = failures + 1
  /\ inFlight' = inFlight
  /\ batches' = batches
  /\ toasts' = toasts \cup {MutationErrorToast(w.write)}
  /\ UNCHANGED <<shifts, rendered, pending, clicks>>
  /\ PageFrame

\* a write fails: onError shows a toast, and the batch of the write rejects
writeFails(w) ==
  /\ w \in inFlight
  /\ failures < MaxFailures
  /\ failures' = failures + 1
  /\ inFlight' = inFlight \ {w}
  /\ batches' = AfterSettling(w, FALSE)
  /\ toasts' = toasts \cup {MutationErrorToast(w.write)} \cup
       UNION {BatchToasts(b.state, Settled(b, FALSE)) : b \in BatchOf(w)}
  /\ UNCHANGED <<shifts, rendered, pending, clicks>>
  /\ PageFrame

\* React renders the grid the effect has set
render ==
  /\ Len(pending) > 0
  /\ rendered' = pending[1]
  /\ pending' = <<>>
  /\ UNCHANGED <<shifts, inFlight, batches, toasts, clicks, failures>>
  /\ PageFrame

NextPage ==
  \/ \E u \in DOMAIN rendered : \E d \in DOMAIN rendered[u] : toggleAssignment(u, d)
  \/ \E u \in DOMAIN rendered : \E d \in DOMAIN rendered[u] : toggleLock(u, d)
  \/ \E n \in DayNumbers(workPeriod) : toggleColumnLock(DateKeyOf(workPeriod, n))
  \/ runOptimizer
  \/ \E w \in inFlight : writeSucceeds(w)
  \/ \E w \in inFlight : writeFails(w)
  \/ render

SpecPage == InitPage /\ [][NextPage]_vars

\* ------------------------------------------------------ reading the page
\* the writes a step issues
Issued == {w.write : w \in inFlight' \ inFlight}

\* the (user, date) pairs that have a cell in both grids
CommonCells(old, new) ==
  {p \in UNION {{<<u, d>> : d \in DOMAIN old[u]} : u \in DOMAIN old} :
     HasCell(new, p[1], p[2])}

\* w is a write for the pair (u, d) of grid old: an update of the record the
\* cell carries the id of, or a create for the user and the date
WriteFor(w, old, u, d) ==
  IF w.mutation = "update"
  THEN old[u][d].id # Undefined /\ w.shiftId = old[u][d].id
  ELSE w.newShift.user_id = u /\ w.newShift.shift_date = d

FlagsOf(cell) ==
  [assigned |-> cell.assigned, locked |-> cell.locked,
   requested_off |-> cell.requested_off]

\* (C12) Diff emission: a runOptimizer step of an administrator issues a write
\* for a (user, date) pair present in the old and the new grid if and only if
\* assigned, locked or requested_off of the pair's cell differs between them.
C12_DiffEmission ==
  [][runOptimizer /\ isAdmin =>
       \A p \in CommonCells(rendered, rendered') :
         (\E w \in Issued : WriteFor(w, rendered, p[1], p[2]))
           <=> FlagsOf(rendered[p[1]][p[2]]) # FlagsOf(rendered'[p[1]][p[2]])]_vars

\* an optimizer run is in flight that wrote some cells of the grid it started
\* from and left others, which it did not change, unwritten
C12_Witness ==
  \E b \in batches :
    /\ b.handler = "runOptimizer" /\ b.state = "pending"
    /\ b.succeeded + b.failed = 0
    /\ rendered = optimizeSchedule(workPeriod, assignedUsers, b.snapshot)
    /\ \E p \in CommonCells(b.snapshot, rendered) :
         /\ FlagsOf(b.snapshot[p[1]][p[2]]) = FlagsOf(rendered[p[1]][p[2]])
         /\ \A w \in inFlight : w.click = b.click => ~WriteFor(w.write, b.snapshot, p[1], p[2])
    /\ \E p \in CommonCells(b.snapshot, rendered) :
         /\ FlagsOf(b.snapshot[p[1]][p[2]]) # FlagsOf(rendered[p[1]][p[2]])
         /\ \E w \in inFlight : w.click = b.click /\ WriteFor(w.write, b.snapshot, p[1], p[2])

\* (C13) Diff write kind: every write a runOptimizer step issues is, for some
\* changed cell, an update of the record whose id the old cell carries, or,
\* when the old cell carries none, a create for the work period, the user and
\* the date; either way with assigned, locked and requested_off of the new
\* cell.
C13_WriteKind ==
  [][runOptimizer /\ isAdmin =>
       \A w \in Issued :
         \E p \in CommonCells(rendered, rendered') :
           LET oldCell == rendered[p[1]][p[2]]
               newCell == rendered'[p[1]][p[2]]
           IN  /\ FlagsOf(oldCell) # FlagsOf(newCell)
               /\ IF oldCell.id # Undefined
                  THEN /\ w.mutation = "update"
                       /\ w.shiftId = oldCell.id
                       /\ w.updates = FlagsOf(newCell)
                  ELSE /\ w.mutation = "create"
                       /\ w.newShift =
                            [work_period_id |-> WorkPeriodId, user_id |-> p[1],
                             shift_date |-> p[2], assigned |-> newCell.assigned,
                             locked |-> newCell.locked,
                             requested_off |-> newCell.requested_off]]_vars

\* an optimizer run is in flight with an update and a create among its writes
C13_Witness ==
  \E b \in batches :
    /\ b.handler = "runOptimizer" /\ b.state = "pending"
    /\ \E w \in inFlight : w.click = b.click /\ w.write.mutation = "update"
    /\ \E w \in inFlight : w.click = b.click /\ w.write.mutation = "create"

\* a text that states how many writes failed and how many succeeded
CountsText(failed, succeeded) ==
  ToString(failed) \o " failed, " \o ToString(succeeded) \o " succeeded"

\* (C14) Partial persistence failure is reported with counts: when the last
\* write of an optimizer batch settles and the batch has both failed and
\* succeeded writes, a toast states the two counts.
C14_CountsReported ==
  [][\A b \in batches :
       /\ b.handler = "runOptimizer"
       /\ \A c \in batches' : c.click # b.click
       => LET failed == b.failed + (failures' - failures)
              succeeded == b.total - failed
          IN  failed > 0 /\ succeeded > 0 =>
                \E t \in toasts' : t.description = CountsText(failed, succeeded)]_vars

\* (C15) Optimizer runs are serialized: no two runOptimizer invocations whose
\* batches are both in flight started from the same grid.
C15_Serialized ==
  \A b1 \in batches : \A b2 \in batches :
    /\ b1.handler = "runOptimizer" /\ b1.state = "pending"
    /\ b2.handler = "runOptimizer" /\ b2.state = "pending"
    /\ b1.click # b2.click
    => b1.snapshot # b2.snapshot

\* (C16) Manual toggles respect locks: a toggleAssignment step leaves assigned
\* as it is in every cell that is locked in the grid the toggle is applied to
\* (the rendered grid, and the reloaded grid that waits for its render), and
\* issues no write for it.
C16_TogglesRespectLocks ==
  [][\A u \in DOMAIN rendered : \A d \in DOMAIN rendered[u] :
       toggleAssignment(u, d) =>
         /\ rendered[u][d].locked =>
              /\ rendered'[u][d].assigned = rendered[u][d].assigned
              /\ Issued = {}
         /\ \A k \in DOMAIN pending :
              pending[k][u][d].locked =>
                /\ pending'[k][u][d].assigned = pending[k][u][d].assigned
                /\ Issued = {}]_vars

\* ------------------------------------------- two calls on two grids
\* optimizeSchedule is called on a grid, and then, with the same period and
\* users, on a second grid that differs from the first in one cell, which has
\* other values or is missing.  The first
\* grid holds the background cell everywhere but in one position at most.
PairUsers == 2

\* the grid without the cell of user u on date d
WithoutCell(g, u, d) == [g EXCEPT ![u] = [e \in DOMAIN g[u] \ {d} |-> g[u][e]]]

InitPair ==
  /\ InitLocals /\ NoPage /\ shifts = <<>>
  /\ \E n \in 1..PairUsers, wp \in ValidPeriods, background \in Backgrounds :
       LET users == {AllUsers[k] : k \in 1..n}
           dates == GridDates(wp)
       IN  \E S \in {T \in SUBSET (users \X dates) : Cardinality(T) <= 1} :
             \E f \in [S -> Flags \ {background}] :
               \E p \in users \X dates, other \in Flags \cup {MissingCell} :
                 LET first == GridOf(users, dates, background, S, f)
                     second == IF other = MissingCell
                               THEN WithoutCell(first, p[1], p[2])
                               ELSE [first EXCEPT ![p[1]][p[2]] =
                                       FlagsCell(other, p[1], p[2])]
                 IN  /\ second # first
                     /\ workPeriod = wp
                     /\ assignedUsers = UsersOf(n)
                     /\ snapshot = first
                     /\ heap = <<first, second>>
                     /\ scheduleGrid = 1

\* the caller calls optimizeSchedule on the second grid
CallOther ==
  /\ pc = "done"
  /\ call = 1
  /\ call' = 2
  /\ scheduleGrid' = 2
  /\ snapshot' = heap[2]
  /\ pc' = "call"
  /\ outcome' = "running"
  /\ UNCHANGED <<workPeriod, assignedUsers, heap, result>>
  /\ UNCHANGED pageVars

NextPair == Optimize \/ CallOther

SpecPair == InitPair /\ [][NextPair]_vars

\* both calls returned: heap[1], heap[2] are the two inputs, heap[3], heap[4]
\* the two outputs
BothDone == pc = "done" /\ call = 2 /\ Len(heap) = 4

\* the cells of date d in grid g, by user
ColumnOf(g, d) == [u \in {v \in DOMAIN g : d \in DOMAIN g[v]} |-> g[u][d]]

CountIn(g, d) == Cardinality({u \in DOMAIN ColumnOf(g, d) : g[u][d].assigned})

\* (C21, as claimed) Days do not interact: when the two input grids have the
\* same cells on day d, the two output grids have the same cells on day d,
\* whatever the other days hold.
C21_AsClaimed ==
  BothDone =>
    \A d \in PeriodDateKeys :
      ColumnOf(heap[1], d) = ColumnOf(heap[2], d) =>
        ColumnOf(heap[3], d) = ColumnOf(heap[4], d)

\* (C21) Days interact through the ranking only: when the two input grids
\* have the same cells on day d, the two outputs have the same number of
\* assigned users on day d, and their cells of day d differ in assigned at
\* most, and only for cells that are unlocked in the input.
C21_DayCount ==
  BothDone =>
    \A d \in PeriodDateKeys :
      ColumnOf(heap[1], d) = ColumnOf(heap[2], d) =>
        /\ CountIn(heap[3], d) = CountIn(heap[4], d)
        /\ DOMAIN ColumnOf(heap[3], d) = DOMAIN ColumnOf(heap[4], d)
        /\ \A u \in DOMAIN ColumnOf(heap[3], d) :
             /\ [heap[3][u][d] EXCEPT !.assigned = FALSE]
                  = [heap[4][u][d] EXCEPT !.assigned = FALSE]
             /\ heap[1][u][d].locked => heap[3][u][d] = heap[4][u][d]

\* two grids with the same cells on a day were both adjusted on that day, to
\* the same count and with different users
C21_Witness ==
  /\ BothDone
  /\ \E d \in PeriodDateKeys :
       /\ ColumnOf(heap[1], d) = ColumnOf(heap[2], d)
       /\ ColumnOf(heap[3], d) # ColumnOf(heap[4], d)
       /\ CountIn(heap[3], d) = CountIn(heap[4], d)
       /\ CountIn(heap[3], d) # CountIn(heap[1], d)

\* the second grid is the first without one cell, which the first holds with
\* the given flags
MissingFor(flags) ==
  \E u \in DOMAIN heap[1] : \E d \in DOMAIN heap[1][u] :
    /\ heap[2] = WithoutCell(heap[1], u, d)
    /\ FlagsOf(heap[1][u][d]) = flags

\* the cells the two grids both have are equal
SameCommonCells(g, h) ==
  \A u \in DOMAIN g \cap DOMAIN h : \A d \in DOMAIN g[u] \cap DOMAIN h[u] :
    g[u][d] = h[u][d]

\* (C22, as claimed) Missing cells behave as defaults: the per-day assigned
\* counts after optimizing a grid with a missing cell equal those after
\* optimizing the grid with the cell filled in with a default cell.
C22_AsClaimed ==
  BothDone /\ MissingFor(DefaultFlags) =>
    \A d \in PeriodDateKeys : CountIn(heap[3], d) = CountIn(heap[4], d)

\* an unassigned cell that the optimizer never assigns
LockedFlags == [assigned |-> FALSE, locked |-> TRUE, requested_off |-> FALSE]

\* (C22) A missing cell counts as unassigned and is never assigned: the
\* per-day assigned counts, and every cell the grid has, are after optimizing
\* a grid with a missing cell the same as after optimizing the grid with the
\* cell filled in with an unassigned locked cell; the cell stays missing.
C22_MissingCells ==
  BothDone /\ MissingFor(LockedFlags) =>
    /\ \A d \in PeriodDateKeys : CountIn(heap[3], d) = CountIn(heap[4], d)
    /\ SameCommonCells(heap[3], heap[4])
    /\ \A u \in DOMAIN heap[2] : DOMAIN heap[4][u] = DOMAIN heap[2][u]

\* a grid with a missing cell was optimized and changed, on the day of the
\* missing cell, as the grid with a locked cell in its place
C22_Witness ==
  /\ BothDone /\ MissingFor(LockedFlags)
  /\ \E u \in DOMAIN heap[1] : \E d \in DOMAIN heap[1][u] \ DOMAIN heap[2][u] :
       /\ CountIn(heap[4], d) # CountIn(heap[2], d)
       /\ CountIn(heap[4], d) < workPeriod.needed_capacity

\* (C23) Store uniqueness: the shifts table holds at most one record per
\* (work period, user, date).
C23_StoreUniqueness ==
  \A i \in 1..Len(shifts) : \A j \in 1..Len(shifts) :
    /\ shifts[i].work_period_id = shifts[j].work_period_id
    /\ shifts[i].user_id = shifts[j].user_id
    /\ shifts[i].shift_date = shifts[j].shift_date
    => i = j

\* (C24) Persistence failure policy: a step in which a write fails leaves the
\* shifts table as it is, so that the writes that succeeded before stay
\* applied, takes the failed write out of flight and issues no write; writes
\* are issued by handler invocations only, and the table changes only by a
\* write in flight that succeeds, which removes no row.
C24_FailurePolicy ==
  [][/\ failures' # failures =>
          /\ shifts' = shifts
          /\ Issued = {}
          /\ \E w \in inFlight : inFlight' = inFlight \ {w}
     /\ Issued # {} => clicks' = clicks + 1
     /\ shifts' # shifts =>
          /\ \E w \in inFlight \ inFlight' : shifts' = Written(shifts, w.write)
          /\ Len(shifts') >= Len(shifts)
          /\ \A k \in 1..Len(shifts) : shifts'[k].id = shifts[k].id]_vars

\* the one click was on the optimizer button; one write of its batch
\* succeeded and set off a reload, another failed, the batch was rejected and
\* nothing is in flight: the record the first write made is in the table
C24_Witness ==
  /\ clicks = 1 /\ failures = 1 /\ inFlight = {} /\ batches = {}
  /\ RejectedToast(Batch(1, "runOptimizer", <<>>, FALSE, 0)) \in toasts
  /\ Len(pending) = 1
  /\ pending[1] = initializeScheduleGrid(workPeriod, assignedUsers, shifts)
  /\ \E k \in 1..Len(shifts) : shifts[k].assigned

\* (C25) Administrator-only mutation: when the caller is not an
\* administrator, an invocation of toggleAssignment, toggleLock,
\* toggleColumnLock or runOptimizer leaves the grid as it is and issues no
\* write.
C25_AdminOnly ==
  [][~isAdmin /\ clicks' = clicks + 1 =>
       /\ rendered' = rendered
       /\ pending' = pending
       /\ Issued = {}
       /\ shifts' = shifts]_vars

\* a caller who is not an administrator has invoked handlers on a grid that
\* has an unlocked cell and a day off its capacity, and nothing has changed
C25_Witness ==
  /\ pc = "page" /\ ~isAdmin /\ clicks = MaxClicks
  /\ rendered = initializeScheduleGrid(workPeriod, assignedUsers, shifts)
  /\ inFlight = {} /\ toasts = {}
  /\ rendered # optimizeSchedule(workPeriod, assignedUsers, rendered)
  /\ \E u \in DOMAIN rendered : \E d \in DOMAIN rendered[u] : ~rendered[u][d].locked

\* some cell of date d is locked in grid g
AnyLocked(g, d) == \E u \in DOMAIN g : d \in DOMAIN g[u] /\ g[u][d].locked

\* (C26) Column lock toggle: a toggleColumnLock(d) step of an administrator
\* sets locked to false on every cell of date d when some cell of the date is
\* locked, and to true on every cell otherwise, and leaves assigned and
\* requested_off of every cell as they are.
C26_ColumnLockToggle ==
  [][\A n \in DayNumbers(workPeriod) :
       LET d == DateKeyOf(workPeriod, n) IN
       toggleColumnLock(d) /\ isAdmin =>
         \A u \in DOMAIN rendered :
           d \in DOMAIN rendered[u] =>
             /\ rendered'[u][d].locked = ~AnyLocked(rendered, d)
             /\ rendered'[u][d].assigned = rendered[u][d].assigned
             /\ rendered'[u][d].requested_off = rendered[u][d].requested_off]_vars

\* (C27) General idempotence: the second call, made on the grid the first
\* call returned with the same period and users, returns a grid equal to it,
\* whether or not every day reached the capacity.
C27_Idempotence ==
  Optimized /\ call = 2 => Out = In

\* the first call changed the number of assigned users of a day and left a
\* day off the capacity, and the second call returned
C27_Witness ==
  /\ Optimized /\ call = 2 /\ IsValidPeriod(workPeriod)
  /\ heap[1] # In
  /\ result # scheduleGrid
  /\ \E d \in PeriodDateKeys : CountOn(In, d) # workPeriod.needed_capacity
  /\ \E d \in PeriodDateKeys : CountOn(heap[1], d) # CountOn(In, d)

\* the call was made on the grid initializeScheduleGrid builds from no
\* record: a default cell for every user and every day of the period
FromEmptyGrid ==
  /\ Optimized /\ call = 1 /\ IsValidPeriod(workPeriod)
  /\ In = EmptyGrid(workPeriod, assignedUsers)
  /\ workPeriod.needed_capacity <= Len(assignedUsers)

WritesLocked(w) ==
  IF w.mutation = "update"
  THEN "locked" \in DOMAIN w.updates /\ w.updates.locked
  ELSE w.newShift.locked

\* (C29) Optimizer persistence never touches locked cells: every write a
\* runOptimizer step issues is for a cell that is unlocked in the grid the
\* run read and in the grid it made, and whose assigned the run flipped; no
\* write of an optimizer batch in flight, whatever has failed, carries
\* locked = true.
C29_LockedUntouched ==
  [][/\ runOptimizer /\ isAdmin =>
          \A w \in Issued :
            \E p \in CommonCells(rendered, rendered') :
              /\ WriteFor(w, rendered, p[1], p[2])
              /\ ~rendered[p[1]][p[2]].locked
              /\ ~rendered'[p[1]][p[2]].locked
              /\ rendered'[p[1]][p[2]].assigned = ~rendered[p[1]][p[2]].assigned
     /\ \A w \in inFlight' : \A b \in batches' :
          b.click = w.click /\ b.handler = "runOptimizer" => ~WritesLocked(w.write)]_vars

\* an optimizer run on a grid with a locked, unassigned cell is in flight:
\* the day of the cell was under capacity, the run assigned and wrote another
\* cell of the day, and none of its writes is for the locked cell
C29_Witness ==
  \E b \in batches :
    /\ b.handler = "runOptimizer" /\ b.state = "pending"
    /\ \E u \in DOMAIN b.snapshot : \E d \in DOMAIN b.snapshot[u] :
         /\ b.snapshot[u][d].locked /\ ~b.snapshot[u][d].assigned
         /\ CountIn(b.snapshot, d) < workPeriod.needed_capacity
         /\ \E w \in inFlight : \E v \in DOMAIN b.snapshot :
              w.click = b.click /\ WriteFor(w.write, b.snapshot, v, d)
         /\ \A w \in inFlight : w.click = b.click => ~WriteFor(w.write, b.snapshot, u, d)

\* the assigned, locked and requested_off values of every cell of a grid
FlagsGrid(g) == [u \in DOMAIN g |-> [d \in DOMAIN g[u] |-> FlagsOf(g[u][d])]]

\* (C30) Persist-and-reload round trip: when the one click so far was on the
\* optimizer button, on the grid built from the store's records, and the last
\* write of its batch succeeds after all the others did, the grid built from
\* the store's records has in every cell the assigned, locked and
\* requested_off of the grid the optimizer returned.
C30_RoundTrip ==
  [][\A b \in batches :
       /\ clicks = 1 /\ b.handler = "runOptimizer"
       /\ failures' = 0
       /\ \A c \in batches' : c.click # b.click
       => FlagsGrid(initializeScheduleGrid(workPeriod, assignedUsers, shifts'))
            = FlagsGrid(optimizeSchedule(workPeriod, assignedUsers, b.snapshot))]_vars

\* the one click was on the optimizer button, every write of its batch has
\* succeeded, and the grid reloaded from the store, which waits for its
\* render, has the values of the optimizer's grid and the ids of new records
C30_Witness ==
  /\ clicks = 1 /\ failures = 0 /\ inFlight = {} /\ batches = {}
  /\ ResolvedToast(Batch(1, "runOptimizer", <<>>, FALSE, 0)) \in toasts
  /\ Len(pending) = 1
  /\ pending[1] = initializeScheduleGrid(workPeriod, assignedUsers, shifts)
  /\ FlagsGrid(pending[1]) = FlagsGrid(rendered)
  /\ pending[1] # rendered
  /\ Len(shifts) >= 2

====
